---- MODULE Spec2Model ----
(***************************************************************************)
(* Model of kratky_rg_izero.py: discovery of the *.out report files of a   *)
(* directory (gather_files_legend), extraction of the scalars and of the  *)
(* S / J EXP table of each report (real_space_io, real_space_rg, get_s_i), *)
(* the Kratky transform and the rendering of the plot (plot_rg_io).        *)
(*                                                                         *)
(* A file name is a sequence of one-character strings.  A report is a     *)
(* sequence of lines; a line is a record [k, a, b] where k is what the     *)
(* line looks like to the patterns of the program and a, b are the numbers *)
(* it carries.  Line indices are 0-based as in pandas; TLA+ sequences are  *)
(* 1-based, so line i of a report is lines[i + 1].                         *)
(***************************************************************************)
EXTENDS Integers, Sequences, FiniteSets, TLC

VARIABLES
    dir,           \* the entries of data_dir, in os.listdir order (environment)
    colors,        \* the colors argument of plot_rg_io
    pc,            \* position of the running call
    exc,           \* the exception that ended the call, "none" otherwise
    earlier,       \* how the previous call of this process ended
    list1,         \* what os.listdir returned at line 38
    list2,         \* what os.listdir returned at line 41
    fns,           \* gather_files_legend: fns
    legend_names,  \* gather_files_legend: legend_names
    idx,           \* 1-based position of `filename` in fns (line 145)
    i0,            \* plot_rg_io: i0 of the current file
    rg,            \* plot_rg_io: rg of the current file
    i0s,           \* plot_rg_io: i0s
    rgs,           \* plot_rg_io: rgs
    dataframes,    \* plot_rg_io: dataframes
    patches,       \* plot_rg_io: patches
    handles,       \* the report files currently open
    image,         \* what the running call's plt.savefig wrote, NoImage before
    probe,         \* the report handed to get_s_i when it is exercised alone
    table          \* what get_s_i made of probe

vars == <<dir, colors, pc, exc, earlier, list1, list2, fns, legend_names, idx,
          i0, rg, i0s, rgs, dataframes, patches, handles, image, probe, table>>

\* ------------------------------------------------------------------ bounds

\* The most entries of a directory that plot_rg_io is called on.
MaxFiles == 2
\* The most entries of a directory that gather_files_legend alone is called on.
MaxEntries == 3
\* The longest list of colors.
MaxColors == 2
\* The longest report handed to get_s_i alone.
MaxLines == 6

\* ------------------------------------------------------------ small helpers

Min(a, b) == IF a < b THEN a ELSE b

Range(s) == {s[i] : i \in 1..Len(s)}

\* The sequences over S of length at most n with no element twice.
Listings(S, n) ==
    UNION {{s \in [1..k -> S] : \A i, j \in 1..k : i # j => s[i] # s[j]} : k \in 0..n}

\* The sequences over S of length at most n.
SeqsUpTo(S, n) == UNION {[1..k -> S] : k \in 0..n}

\* ------------------------------------------------------------------ strings

\* A suffix test that accepts the suffix anywhere in the name.
ContainsAnywhere(s, suf) ==
    \E i \in 1..Len(s) : i + Len(suf) - 1 <= Len(s) /\ SubSeq(s, i, i + Len(suf) - 1) = suf

\* str.endswith
EndsWith(s, suf) ==
    /\ Len(s) >= Len(suf)
    /\ SubSeq(s, Len(s) - Len(suf) + 1, Len(s)) = suf

\* str.split(sep) for a one-character sep: empty tokens are kept.
RECURSIVE SplitAcc(_, _, _, _, _)
SplitAcc(s, sep, i, cur, acc) ==
    IF i > Len(s) THEN Append(acc, cur)
    ELSE IF s[i] = sep THEN SplitAcc(s, sep, i + 1, <<>>, Append(acc, cur))
    ELSE SplitAcc(s, sep, i + 1, Append(cur, s[i]), acc)

Split(s, sep) == SplitAcc(s, sep, 1, <<>>, <<>>)

\* sep.join(tokens)
RECURSIVE Join(_, _)
Join(tokens, sep) ==
    IF Len(tokens) = 0 THEN <<>>
    ELSE IF Len(tokens) = 1 THEN tokens[1]
    ELSE tokens[1] \o <<sep>> \o Join(Tail(tokens), sep)

\* tokens[:3]
FirstThree(tokens) == SubSeq(tokens, 1, Min(3, Len(tokens)))

DotOut == <<".", "o", "u", "t">>

\* fn.endswith(".out")
IsOut(fn) == EndsWith(fn, DotOut)

\* '_'.join(fn.split('_')[:3])
LegendName(fn) == Join(FirstThree(Split(fn, "_")), "_")

\* os.path.join(data_dir, fn)
PathJoin(fn) == [dir |-> "data_dir", name |-> fn]

\* The loop of lines 38-40: the legend names of the listed *.out entries.
RECURSIVE LegendLoop(_)
LegendLoop(listing) ==
    IF listing = <<>> THEN <<>>
    ELSE (IF IsOut(Head(listing)) THEN <<LegendName(Head(listing))>> ELSE <<>>)
         \o LegendLoop(Tail(listing))

\* The loop of lines 41-43: the paths of the listed *.out entries.
RECURSIVE PathLoop(_)
PathLoop(listing) ==
    IF listing = <<>> THEN <<>>
    ELSE (IF IsOut(Head(listing)) THEN <<PathJoin(Head(listing))>> ELSE <<>>)
         \o PathLoop(Tail(listing))

\* ------------------------------------------------------------------ reports

Line(kind, x, y) == [k |-> kind, a |-> x, b |-> y]

Blank == Line("blank", 0, 0)        \* an empty line
Text == Line("text", 0, 0)          \* a line no pattern matches, not numeric
Header == Line("header", 0, 0)      \* "  S   J EXP   ERROR   J REG   I REG"
Boundary == Line("boundary", 0, 0)  \* "####  Real Space Data  ####"
Row(s, j) == Line("row", s, j)      \* a table row with S = s and J EXP = j
RgLine(v) == Line("rg", v, 0)       \* "Real space Rg: v +- ..."
RgShort == Line("rg_short", 0, 0)   \* "Real space Rg" with no token at index 3
RgText == Line("rg_text", 0, 0)     \* "Real space Rg" with text at index 3
I0Line(v) == Line("i0", v, 0)       \* "Real space I(0): v +- ..."
I0Short == Line("i0_short", 0, 0)   \* "Real space I(0)" with no token at index 3
I0Text == Line("i0_text", 0, 0)     \* "Real space I(0)" with text at index 3

\* 'Real space Rg' in line
HasRgMarker(l) == l.k \in {"rg", "rg_short", "rg_text"}
\* 'Real space I(0)' in line
HasI0Marker(l) == l.k \in {"i0", "i0_short", "i0_text"}

\* The values a function of the program can hand back.
None == [tag |-> "None", v |-> 0]
Float(x) == [tag |-> "float", v |-> x]
Raise(e) == [tag |-> "raise", v |-> None, e |-> e]
Return(x) == [tag |-> "return", v |-> x, e |-> "none"]

\* float(line.split()[3]) of a marker line
TokenThree(l) ==
    IF l.k \in {"rg_short", "i0_short"} THEN Raise("IndexError")
    ELSE IF l.k \in {"rg_text", "i0_text"} THEN Raise("ValueError")
    ELSE Return(Float(l.a))

\* The loop of real_space_rg: the first line with the marker decides; falling
\* off the end of the loop returns None.
RECURSIVE RgLoop(_)
RgLoop(lines) ==
    IF lines = <<>> THEN Return(None)
    ELSE IF HasRgMarker(Head(lines)) THEN TokenThree(Head(lines))
    ELSE RgLoop(Tail(lines))

\* The loop of real_space_io.
RECURSIVE I0Loop(_)
I0Loop(lines) ==
    IF lines = <<>> THEN Return(None)
    ELSE IF HasI0Marker(Head(lines)) THEN TokenThree(Head(lines))
    ELSE I0Loop(Tail(lines))

\* A with statement that closes the file only when its body ends normally.
CloseUnlessRaised(open, path, outcome) ==
    IF outcome.tag = "raise" THEN open ELSE open \ {path}

\* Leaving `with open(fn) as f`: the file is closed however the body ended.
WithExit(open, path, outcome) == open \ {path}

\* ------------------------------------------------------------------ get_s_i

\* read_table(..., skip_blank_lines=False).dropna(): the original indices of
\* the lines that are not blank (the index is kept, not renumbered).
DataFind(lines) == {i \in 0..(Len(lines) - 1) : lines[i + 1] # Blank}

\* data_find[data_find.data.str.contains(pat)].index.to_list()
Matching(lines, kind) == {i \in DataFind(lines) : lines[i + 1].k = kind}

SetMin(S) == CHOOSE x \in S : \A y \in S : x <= y

\* A start that takes the header line itself as the first row.
StartAtHeader(h) == h

\* start: one line after the header (line 65-66)
StartOf(h) == h + 1

\* stop: two lines before the boundary (line 63-64)
StopOf(b) == b - 2

\* The original indices, from `from` on, of the lines that are not blank.
RECURSIVE NonBlankFrom(_, _)
NonBlankFrom(lines, from) ==
    IF from >= Len(lines) THEN <<>>
    ELSE (IF lines[from + 1] # Blank THEN <<from>> ELSE <<>>)
         \o NonBlankFrom(lines, from + 1)

\* The original indices from..to-1 (cut at the end of the file) of the lines
\* that are not blank.
NonBlankBetween(lines, from, to) ==
    LET all == NonBlankFrom(lines, from)
        keep == {k \in 1..Len(all) : all[k] < to}
    IN  SubSeq(all, 1, Cardinality(keep))

\* pd.read_fwf(fn, engine='python', skiprows=skiprows, nrows=nrows, names=...),
\* skip_blank_lines left at its default True: the original indices of the
\* lines that become the rows of the frame.  The python parser skips the
\* first skiprows lines of the file, buffers the first three lines that are
\* not blank while it settles the columns and the index, then reads raw lines
\* until nrows lines are held, and drops the blank ones among them.
ReadFwf(lines, skiprows, nrows) ==
    LET nonblank == NonBlankFrom(lines, skiprows)
        buf == SubSeq(nonblank, 1, Min(3, Len(nonblank)))
        pos == IF Len(nonblank) < 3 THEN Len(lines) ELSE buf[3] + 1
    IN  IF nrows <= Len(buf) THEN SubSeq(buf, 1, nrows)
        ELSE buf \o NonBlankBetween(lines, pos, pos + (nrows - Len(buf)))

\* A frame whose columns are never coerced.
AcceptAnyRow(l) == TRUE

\* .astype('float') of the S and J EXP fields of a line of the frame
IsNumericRow(l) == l.k = "row"

\* s_i_data[['S', 'J EXP']]: the two columns of the lines read.
Frame(lines, rows) == [k \in 1..Len(rows) |-> [S |-> lines[rows[k] + 1].a,
                                               J |-> lines[rows[k] + 1].b]]

NoTable == [tag |-> "none", e |-> "none", rows |-> <<>>, frame |-> <<>>]
TableError(e, r) == [tag |-> "raise", e |-> e, rows |-> r, frame |-> <<>>]
TableOf(r, f) == [tag |-> "return", e |-> "none", rows |-> r, frame |-> f]

\* get_s_i(fn) on the lines of fn.  rows are the lines read_fwf made rows of
\* (line 67-69); frame is the data frame returned at line 71.
get_s_i(lines) ==
    IF Matching(lines, "boundary") = {} THEN TableError("IndexError", <<>>)
    ELSE IF Matching(lines, "header") = {} THEN TableError("IndexError", <<>>)
    ELSE LET stop == StopOf(SetMin(Matching(lines, "boundary")))
             start == StartOf(SetMin(Matching(lines, "header")))
         IN  IF stop - start < 0 THEN TableError("ValueError", <<>>)
             ELSE LET rows == ReadFwf(lines, start, stop - start)
                  IN  IF \E k \in 1..Len(rows) : ~IsNumericRow(lines[rows[k] + 1])
                      THEN TableError("ValueError", rows)
                      ELSE TableOf(rows, Frame(lines, rows))

\* ---------------------------------------------------------- Kratky transform

RECURSIVE Gcd(_, _)
Gcd(a, b) == IF b = 0 THEN a ELSE Gcd(b, a % b)

\* A quotient of two floats, kept exact: n / d in lowest terms; a division by
\* zero gives a value that is not finite.
NonFinite == [n |-> 0, d |-> 0]
Frac(n, d) ==
    IF d = 0 THEN NonFinite
    ELSE LET g == Gcd(n, d) IN IF g = 0 THEN [n |-> 0, d |-> 1]
                               ELSE [n |-> n \div g, d |-> d \div g]

\* k * q for a float k and a quotient q
Times(k, q) == IF q = NonFinite THEN NonFinite ELSE Frac(k * q.n, q.d)

\* A transform that leaves out the square.
KratkyUnsquared(S, J, rgv, i0v) ==
    [S |-> S, J |-> J, new_column |-> Times(S * rgv, Frac(J, i0v)),
     new_column3 |-> S * rgv]

\* Lines 151-154 for one row: new_column = (S * rg)**2 * (J EXP / i0) and
\* new_column3 = S * rg.
KratkyRow(S, J, rgv, i0v) ==
    [S |-> S, J |-> J, new_column |-> Times((S * rgv) * (S * rgv), Frac(J, i0v)),
     new_column3 |-> S * rgv]

\* Lines 151-154 for a frame: one row out per row in, in order.  With rg or
\* i0 None the arithmetic raises TypeError as soon as there is a row.
Kratky(frame, rgx, i0x) ==
    IF frame = <<>> THEN Return(<<>>)
    ELSE IF rgx = None \/ i0x = None THEN Raise("TypeError")
    ELSE Return([k \in 1..Len(frame) |->
                    KratkyRow(frame[k].S, frame[k].J, rgx.v, i0x.v)])

\* -------------------------------------------------------------- file system

\* File names, one character per element.
Name4 == <<"a", "_", "b", "_", "c", "_", "d", ".", "o", "u", "t">>    \* a_b_c_d.out
Name1 == <<"a", "b", ".", "o", "u", "t">>    \* ab.out
Name2 == <<"a", "_", "b", ".", "o", "u", "t">>    \* a_b.out
Name3 == <<"a", "_", "b", "_", "c", ".", "o", "u", "t">>    \* a_b_c.out
NameC == <<"c", ".", "o", "u", "t">>    \* c.out
NameD == <<"d", ".", "o", "u", "t">>    \* d.out
NameE == <<"e", ".", "o", "u", "t">>    \* e.out
NameF == <<"f", ".", "o", "u", "t">>    \* f.out
NameG == <<"g", ".", "o", "u", "t">>    \* g.out
NameH == <<"h", ".", "o", "u", "t">>    \* h.out
NameI == <<"i", ".", "o", "u", "t">>    \* i.out
NameTxt == <<"a", "b", ".", "t", "x", "t">>    \* ab.txt
NameMid == <<"a", ".", "o", "u", "t", "x">>    \* a.outx
NameNoDot == <<"a", "b", "o", "u", "t">>    \* about
NameUpper == <<"a", ".", "O", "U", "T">>    \* a.OUT
NameSub == <<"s", "u", "b">>    \* sub
NameDeep == <<"z", ".", "o", "u", "t">>    \* z.out

\* The names a report directory is populated with.
BatchNames == {Name4, Name1, Name2, NameC, NameD, NameE, NameF, NameG, NameH,
               NameI, NameTxt}

\* The names a directory is populated with when discovery is exercised alone.
\* NameSub is a subdirectory; it holds NameDeep.
GatherNames == {Name4, Name3, Name2, Name1, NameTxt, NameMid, NameNoDot,
                NameUpper, NameSub}

\* The entries of the subdirectories of data_dir.
Children(name) == IF name = NameSub THEN <<NameDeep>> ELSE <<>>

\* A well-formed report as the analysis tool writes it: a blank line after
\* the header and before the boundary.  Rg = 2, I(0) = 4.
ReportA == <<RgLine(2), I0Line(4), Header, Blank, Row(1, 4), Row(2, 2), Blank,
             Boundary>>
\* A well-formed report without blank lines.  Rg = 1, I(0) = 3.
ReportB == <<I0Line(3), Text, RgLine(1), Header, Row(1, 1), Row(3, 2), Row(2, 5),
             Text, Text, Boundary>>
\* No header line.
ReportNoHeader == <<RgLine(1), I0Line(1), Row(1, 1), Text, Text, Boundary>>
\* No 'Real Space' line.
ReportNoBoundary == <<RgLine(1), I0Line(1), Header, Row(1, 1), Text, Text>>
\* The 'Real Space' line before the header: start after end.
ReportInverted == <<RgLine(1), I0Line(1), Boundary, Header, Row(1, 1)>>
\* A line of text among the rows.
ReportBadRow == <<RgLine(1), I0Line(1), Header, Row(1, 1), Text, Row(2, 1), Text,
                  Text, Boundary>>
\* No 'Real space Rg' line, one row.
ReportNoRg == <<I0Line(2), Header, Row(1, 2), Text, Text, Boundary>>
\* No 'Real space I(0)' line, no row.
ReportNoI0 == <<RgLine(2), Header, Text, Text, Boundary>>
\* A 'Real space Rg' line cut short, before a good one.
ReportRgShort == <<I0Line(1), RgShort, RgLine(1), Header, Row(1, 1), Text, Text,
                   Boundary>>
\* Text where the value of I(0) should be.
ReportI0Text == <<RgLine(1), I0Text, Header, Row(1, 1), Text, Text, Boundary>>

\* The lines of the file of each name.
ReportOf(name) ==
    CASE name = Name4 -> ReportA
      [] name = Name1 -> ReportB
      [] name = Name2 -> ReportNoHeader
      [] name = NameC -> ReportBadRow
      [] name = NameD -> ReportNoRg
      [] name = NameE -> ReportNoI0
      [] name = NameF -> ReportRgShort
      [] name = NameG -> ReportI0Text
      [] name = NameH -> ReportNoBoundary
      [] name = NameI -> ReportInverted
      [] OTHER -> ReportA

\* The default of --colors (lines 185-186).  The command line takes one color
\* or more (nargs='+', line 183).
Palette == <<"#e41a1c", "#377eb8", "#4daf4a", "#984ea3", "#984ea3", "#ffff33">>

ColorLists == {SubSeq(Palette, 1, n) : n \in 1..MaxColors}

BatchListings == Listings(BatchNames, MaxFiles)
GatherListings == Listings(GatherNames, MaxEntries)

\* The lines a report handed to get_s_i alone is made of.
ProbeLines == {Blank, Text, Header, Boundary, Row(1, 2)}

\* os.listdir(data_dir): the names of the entries of data_dir itself, in the
\* order the file system gives them; the entries of subdirectories are not
\* listed.
os_listdir(entries) == entries

\* A list that keeps what an earlier call left in it.
StaleList(previous) == previous

\* `name = []` (lines 36-37, 139-142): a new empty list, whatever a variable
\* of that name held in an earlier call.
NewList(previous) == <<>>

NoImage == [saved |-> FALSE, series |-> <<>>, legend |-> <<>>]
NoExc == [in |-> "none", e |-> "none"]
Exc(where, e) == [in |-> where, e |-> e]

\* The length of zip(a, b, c)
ZipLen(a, b, c) == Min(Len(a), Min(Len(b), Len(c)))

\* ------------------------------------------------------------------ actions

\* plot_rg_io is called (lines 139-143) on a directory with some entries and
\* with some colors, and gather_files_legend runs up to its first listing
\* (lines 36-40).
Call(listings, colorlists) ==
    /\ pc \in {"idle", "done", "error"}
    /\ dir' \in listings
    /\ colors' \in colorlists
    /\ earlier' = pc
    /\ rgs' = NewList(rgs)
    /\ i0s' = NewList(i0s)
    /\ dataframes' = NewList(dataframes)
    /\ patches' = NewList(patches)
    /\ fns' = NewList(fns)
    /\ list1' = os_listdir(dir')
    /\ legend_names' = NewList(legend_names) \o LegendLoop(list1')
    /\ list2' = <<>>
    /\ idx' = 0
    /\ i0' = None
    /\ rg' = None
    /\ exc' = NoExc
    /\ image' = NoImage
    /\ pc' = "gather2"
    /\ UNCHANGED <<handles, probe, table>>

\* `entries` with one entry removed.
Removals(entries) ==
    {SubSeq(entries, 1, k - 1) \o SubSeq(entries, k + 1, Len(entries)) :
        k \in 1..Len(entries)}

\* The listings one change away from `entries`: two neighbouring entries
\* listed the other way round, one entry less, or one more entry of `names` at
\* the end, up to n entries.
Neighbours(entries, names, n) ==
    {[entries EXCEPT ![k] = entries[k + 1], ![k + 1] = entries[k]] :
        k \in 1..(Len(entries) - 1)}
    \cup Removals(entries)
    \cup {Append(entries, name) :
             name \in {x \in names : Len(entries) < n} \ Range(entries)}

\* The first call of the process, on any directory.
FirstCall == pc = "idle" /\ Call(BatchListings, ColorLists)

\* A later call of the same process, after a call that returned or raised, on
\* the directory as the call before left it or with one entry removed since.
LaterCall ==
    /\ pc \in {"done", "error"}
    /\ Call({dir} \cup Removals(dir), {colors})

CallGather == pc = "idle" /\ Call(GatherListings, {Palette})

\* Another process adds, removes or reorders entries of data_dir between the
\* two listings of gather_files_legend.
EnvChange ==
    /\ pc = "gather2"
    /\ dir = list1
    /\ dir' \in Neighbours(dir, GatherNames, MaxEntries)
    /\ UNCHANGED <<colors, pc, exc, earlier, list1, list2, fns, legend_names, idx,
                   i0, rg, i0s, rgs, dataframes, patches, handles, image, probe,
                   table>>

\* The second listing of gather_files_legend (lines 41-44); plot_rg_io takes
\* the two lists (line 143) and reaches its loop.
GatherSecond ==
    /\ pc = "gather2"
    /\ list2' = os_listdir(dir)
    /\ fns' = fns \o PathLoop(list2')
    /\ idx' = 1
    /\ pc' = "loop"
    /\ UNCHANGED <<dir, colors, exc, earlier, list1, legend_names, i0, rg, i0s, rgs,
                   dataframes, patches, handles, image, probe, table>>

\* real_space_io(filename) opens the file (lines 146, 109).
IoOpen ==
    /\ pc = "loop"
    /\ idx <= Len(fns)
    /\ handles' = handles \cup {fns[idx]}
    /\ pc' = "io"
    /\ UNCHANGED <<dir, colors, exc, earlier, list1, list2, fns, legend_names, idx,
                   i0, rg, i0s, rgs, dataframes, patches, image, probe, table>>

\* real_space_io reads the file and leaves its with statement (lines 110-113);
\* plot_rg_io keeps what it returned (lines 146-147).
IoScan ==
    /\ pc = "io"
    /\ LET r == I0Loop(ReportOf(fns[idx].name))
       IN  /\ handles' = WithExit(handles, fns[idx], r)
           /\ IF r.tag = "raise"
              THEN /\ pc' = "error"
                   /\ exc' = Exc("real_space_io", r.e)
                   /\ UNCHANGED <<i0, i0s>>
              ELSE /\ pc' = "rg_open"
                   /\ i0' = r.v
                   /\ i0s' = Append(i0s, r.v)
                   /\ UNCHANGED exc
    /\ UNCHANGED <<dir, colors, earlier, list1, list2, fns, legend_names, idx, rg,
                   rgs, dataframes, patches, image, probe, table>>

\* real_space_rg(filename) opens the file (lines 148, 88).
RgOpen ==
    /\ pc = "rg_open"
    /\ handles' = handles \cup {fns[idx]}
    /\ pc' = "rg"
    /\ UNCHANGED <<dir, colors, exc, earlier, list1, list2, fns, legend_names, idx,
                   i0, rg, i0s, rgs, dataframes, patches, image, probe, table>>

\* real_space_rg reads the file and leaves its with statement (lines 89-92);
\* plot_rg_io keeps what it returned (lines 148-149).
RgScan ==
    /\ pc = "rg"
    /\ LET r == RgLoop(ReportOf(fns[idx].name))
       IN  /\ handles' = WithExit(handles, fns[idx], r)
           /\ IF r.tag = "raise"
              THEN /\ pc' = "error"
                   /\ exc' = Exc("real_space_rg", r.e)
                   /\ UNCHANGED <<rg, rgs>>
              ELSE /\ pc' = "table"
                   /\ rg' = r.v
                   /\ rgs' = Append(rgs, r.v)
                   /\ UNCHANGED exc
    /\ UNCHANGED <<dir, colors, earlier, list1, list2, fns, legend_names, idx, i0,
                   i0s, dataframes, patches, image, probe, table>>

\* get_s_i(filename) and the two new columns (lines 150-155).
Transform ==
    /\ pc = "table"
    /\ LET t == get_s_i(ReportOf(fns[idx].name))
           df == Kratky(t.frame, rg, i0)
       IN  IF t.tag = "raise"
           THEN /\ pc' = "error"
                /\ exc' = Exc("get_s_i", t.e)
                /\ UNCHANGED <<dataframes, idx>>
           ELSE IF df.tag = "raise"
           THEN /\ pc' = "error"
                /\ exc' = Exc("plot_rg_io", df.e)
                /\ UNCHANGED <<dataframes, idx>>
           ELSE /\ pc' = "loop"
                /\ dataframes' = Append(dataframes, df.v)
                /\ idx' = idx + 1
                /\ UNCHANGED exc
    /\ UNCHANGED <<dir, colors, earlier, list1, list2, fns, legend_names, i0, rg,
                   i0s, rgs, patches, handles, image, probe, table>>

\* The plot (lines 156-168): one series and one legend patch per element of
\* zip(legend_names, dataframes, colors), then savefig.
Render ==
    /\ pc = "loop"
    /\ idx > Len(fns)
    /\ LET n == ZipLen(legend_names, dataframes, colors)
           drawn == [k \in 1..n |->
                       [x |-> [j \in 1..Len(dataframes[k]) |->
                                  dataframes[k][j].new_column3],
                        y |-> [j \in 1..Len(dataframes[k]) |->
                                  dataframes[k][j].new_column],
                        color |-> colors[k]]]
           made == [k \in 1..n |-> [color |-> colors[k], label |-> legend_names[k]]]
       IN  /\ patches' = patches \o made
           /\ image' = [saved |-> TRUE, series |-> drawn, legend |-> patches']
    /\ pc' = "done"
    /\ UNCHANGED <<dir, colors, exc, earlier, list1, list2, fns, legend_names, idx,
                   i0, rg, i0s, rgs, dataframes, handles, probe, table>>

\* get_s_i on a report of its own.
ParseProbe ==
    /\ pc = "parse"
    /\ table' = get_s_i(probe)
    /\ pc' = "parsed"
    /\ UNCHANGED <<dir, colors, exc, earlier, list1, list2, fns, legend_names, idx,
                   i0, rg, i0s, rgs, dataframes, patches, handles, image, probe>>

\* ------------------------------------------------------------ specifications

Fresh ==
    /\ dir = <<>>
    /\ colors = <<>>
    /\ exc = NoExc
    /\ earlier = "none"
    /\ list1 = <<>>
    /\ list2 = <<>>
    /\ fns = <<>>
    /\ legend_names = <<>>
    /\ idx = 0
    /\ i0 = None
    /\ rg = None
    /\ i0s = <<>>
    /\ rgs = <<>>
    /\ dataframes = <<>>
    /\ patches = <<>>
    /\ handles = {}
    /\ image = NoImage
    /\ table = NoTable

\* The process before its first call of plot_rg_io.
Init == Fresh /\ pc = "idle" /\ probe = <<>>

Next ==
    \/ FirstCall
    \/ LaterCall
    \/ GatherSecond
    \/ IoOpen
    \/ IoScan
    \/ RgOpen
    \/ RgScan
    \/ Transform
    \/ Render

\* Calls of plot_rg_io, one after the other, in one process.
Spec == Init /\ [][Next]_vars

NextGather == CallGather \/ EnvChange \/ GatherSecond

\* One call of gather_files_legend on a directory that other processes write.
SpecGather == Init /\ [][NextGather]_vars

InitParse == Fresh /\ pc = "parse" /\ probe \in SeqsUpTo(ProbeLines, MaxLines)

NextParse == ParseProbe

\* get_s_i on every report of at most MaxLines lines.
SpecParse == InitParse /\ [][NextParse]_vars

\* ------------------------------------------------------------------ claims

\* What the claims call the header line index H and the boundary line index B
\* of a report (0-based, first match).
HeaderIndex(lines) == SetMin({i \in 0..(Len(lines) - 1) : lines[i + 1].k = "header"})
BoundaryIndex(lines) == SetMin({i \in 0..(Len(lines) - 1) : lines[i + 1].k = "boundary"})
HasAnchors(lines) ==
    /\ \E i \in 1..Len(lines) : lines[i].k = "header"
    /\ \E i \in 1..Len(lines) : lines[i].k = "boundary"

\* The original-file lines H+1 .. B-3, in order.
ClaimedRows(lines) ==
    [k \in 1..((BoundaryIndex(lines) - 2) - (HeaderIndex(lines) + 1)) |->
        HeaderIndex(lines) + k]

\* get_s_i has run on a report with H+1 <= B-2.
C1_Case ==
    /\ pc = "parsed"
    /\ HasAnchors(probe)
    /\ HeaderIndex(probe) + 1 <= BoundaryIndex(probe) - 2

C1_NoBlankRow ==
    \A i \in (HeaderIndex(probe) + 1)..(BoundaryIndex(probe) - 3) : probe[i + 1] # Blank

\* C1 as stated: whenever get_s_i returns on a report with H+1 <= B-2, it
\* returns exactly (B-2)-(H+1) rows and they are the lines H+1 .. B-3 in order,
\* wherever the blank lines of the file are.
C1_RowsAnyBlanks ==
    (C1_Case /\ table.tag = "return") =>
        /\ Len(table.frame) = (BoundaryIndex(probe) - 2) - (HeaderIndex(probe) + 1)
        /\ table.rows = ClaimedRows(probe)

\* C1 amended: on a report with H+1 <= B-2 and no blank line among the lines
\* H+1 .. B-3, read_fwf makes rows of exactly the (B-2)-(H+1) lines H+1 .. B-3,
\* in order; get_s_i returns them, with their S and J EXP values, when all of
\* them are numeric, and raises otherwise.
C1_RowsNoBlankInTable ==
    (C1_Case /\ C1_NoBlankRow) =>
        /\ table.rows = ClaimedRows(probe)
        /\ table.tag = "return" <=>
              \A k \in 1..Len(ClaimedRows(probe)) :
                  probe[ClaimedRows(probe)[k] + 1].k = "row"
        /\ table.tag = "return" =>
              /\ Len(table.frame) = (BoundaryIndex(probe) - 2) - (HeaderIndex(probe) + 1)
              /\ \A k \in 1..Len(table.frame) :
                    /\ table.frame[k].S = probe[ClaimedRows(probe)[k] + 1].a
                    /\ table.frame[k].J = probe[ClaimedRows(probe)[k] + 1].b

\* get_s_i returned two rows from a report that has a blank line outside its
\* table.
C1_Witness ==
    /\ C1_Case
    /\ C1_NoBlankRow
    /\ table.tag = "return"
    /\ Len(table.frame) = 2
    /\ \E i \in 1..Len(probe) : probe[i] = Blank

\* C2: every data frame of the call holds one row per row of the table of its
\* own file, in the order of the table, with new_column3 = S * rg and
\* new_column = (S * rg)^2 * (J / i0) for the rg and i0 of that same file
\* (i0 # 0); the series drawn are the columns of these frames, in order.
C2_KratkyTransform ==
    /\ \A k \in 1..Len(dataframes) :
          LET lines == ReportOf(fns[k].name)
              r == RgLoop(lines)
              z == I0Loop(lines)
              t == get_s_i(lines)
          IN  (/\ r.tag = "return" /\ r.v.tag = "float"
               /\ z.tag = "return" /\ z.v.tag = "float" /\ z.v.v # 0
               /\ t.tag = "return")
              => /\ Len(dataframes[k]) = Len(t.rows)
                 /\ \A j \in 1..Len(dataframes[k]) :
                       LET S == lines[t.rows[j] + 1].a
                           J == lines[t.rows[j] + 1].b
                           p == dataframes[k][j]
                       IN  /\ p.new_column3 = S * r.v.v
                           /\ p.new_column.d # 0
                           /\ p.new_column.n * z.v.v
                                 = (S * r.v.v) * (S * r.v.v) * J * p.new_column.d
    /\ \A k \in 1..Len(image.series) :
          /\ Len(image.series[k].x) = Len(dataframes[k])
          /\ Len(image.series[k].y) = Len(dataframes[k])
          /\ \A j \in 1..Len(dataframes[k]) :
                /\ image.series[k].x[j] = dataframes[k][j].new_column3
                /\ image.series[k].y[j] = dataframes[k][j].new_column

\* A plot was saved with two series of at least two points from files with
\* different rg.
C2_Witness ==
    /\ image.saved
    /\ Len(image.series) >= 2
    /\ Len(image.series[1].x) >= 2
    /\ Len(image.series[2].x) >= 2
    /\ rgs[1] # rgs[2]

\* The failures of C4 as the claim lists them: no header, no boundary, start
\* after end, or a line among H+1 .. B-3 that is neither blank nor numeric.
ClaimedFailure(lines) ==
    \/ ~HasAnchors(lines)
    \/ HeaderIndex(lines) + 1 > BoundaryIndex(lines) - 2
    \/ \E i \in (HeaderIndex(lines) + 1)..(BoundaryIndex(lines) - 3) :
          lines[i + 1].k \notin {"blank", "row"}

\* C4: when one of the discovered files fails to parse, the call never reaches
\* the end of its loop and never saves an image.
C4_AllOrNothing ==
    (\E k \in 1..Len(fns) : ClaimedFailure(ReportOf(fns[k].name))) =>
        /\ ~image.saved
        /\ pc # "done"
        /\ ~(pc = "loop" /\ idx > Len(fns))

\* The call was aborted by get_s_i on a file that comes after the colors have
\* run out.
C4_Witness ==
    /\ pc = "error"
    /\ exc.in = "get_s_i"
    /\ Len(colors) >= 1
    /\ idx > Len(colors)
    /\ ClaimedFailure(ReportOf(fns[idx].name))
    /\ ~image.saved

\* C5 as stated: real_space_rg and real_space_io never hand an absent value
\* to plot_rg_io.
C5_NoAbsentScalar ==
    /\ \A k \in 1..Len(rgs) : rgs[k] # None
    /\ \A k \in 1..Len(i0s) : i0s[k] # None

\* C6 as stated: with fewer colors than discovered files no image is saved.
C6_ShortColorsNoImage == Len(colors) < Len(fns) => ~image.saved

\* C8: the lists of a call hold what this call's directory gives and nothing
\* else: the legend names and the paths of its listing, one i0, rg and frame
\* per file processed so far, each from the file at the same position, and one
\* patch per series drawn.
C8_NoCarriedState ==
    pc # "idle" =>
        /\ list1 = dir
        /\ legend_names = LegendLoop(dir)
        /\ fns = (IF pc = "gather2" THEN <<>> ELSE PathLoop(dir))
        /\ Len(i0s) <= Len(fns)
        /\ Len(rgs) <= Len(i0s)
        /\ Len(dataframes) <= Len(rgs)
        /\ \A k \in 1..Len(i0s) : i0s[k] = I0Loop(ReportOf(fns[k].name)).v
        /\ \A k \in 1..Len(rgs) : rgs[k] = RgLoop(ReportOf(fns[k].name)).v
        /\ \A k \in 1..Len(dataframes) :
              Len(dataframes[k]) = Len(get_s_i(ReportOf(fns[k].name)).frame)
        /\ Len(patches) = Len(image.series)
        /\ \A k \in 1..Len(patches) : patches[k].label = legend_names[k]
        /\ image.saved => Len(image.series) = ZipLen(legend_names, dataframes, colors)

\* A call that follows an aborted call has drawn its plot.
C8_Witness ==
    /\ earlier = "error"
    /\ pc = "done"
    /\ Len(dataframes) >= 1
    /\ Len(patches) >= 1

\* C9: a report file is open only while real_space_io or real_space_rg reads
\* it; after either has returned or raised, and after the call has returned or
\* aborted, no file is open.
C9_FilesClosed ==
    /\ pc \in {"io", "rg"} => handles = {fns[idx]}
    /\ pc \notin {"io", "rg"} => handles = {}

\* real_space_rg raised on the token at index 3 and the call was aborted.
C9_Witness ==
    /\ pc = "error"
    /\ exc = Exc("real_space_rg", "IndexError")
    /\ handles = {}

\* The suffix test of C7, character by character.
ClaimedOut(name) ==
    /\ Len(name) >= 4
    /\ name[Len(name) - 3] = "."
    /\ name[Len(name) - 2] = "o"
    /\ name[Len(name) - 1] = "u"
    /\ name[Len(name)] = "t"

\* C7: gather_files_legend returns a path for a name exactly when the name is
\* an entry of the directory itself and ends with ".out", and as many legend
\* names as the first listing has such entries.
C7_DiscoveryFilter ==
    pc = "loop" =>
        /\ \A name \in GatherNames :
              /\ PathJoin(name) \in Range(fns) <=>
                     (name \in Range(list2) /\ ClaimedOut(name))
              /\ \A k \in 1..Len(Children(name)) :
                     PathJoin(Children(name)[k]) \notin Range(fns)
        /\ \A k \in 1..Len(fns) : fns[k].name \in GatherNames
        /\ Len(fns) = Cardinality({i \in 1..Len(list2) : ClaimedOut(list2[i])})
        /\ Len(legend_names) = Cardinality({i \in 1..Len(list1) : ClaimedOut(list1[i])})

\* A directory with a subdirectory, a name with ".out" inside it and a report
\* has been gathered.
C7_Witness ==
    /\ pc = "loop"
    /\ {NameSub, NameMid, Name1} \subseteq Range(list2)
    /\ fns = <<PathJoin(Name1)>>

\* The entries of a listing that end with ".out", in order.
RECURSIVE ClaimedOutEntries(_)
ClaimedOutEntries(listing) ==
    IF listing = <<>> THEN <<>>
    ELSE (IF ClaimedOut(Head(listing)) THEN <<Head(listing)>> ELSE <<>>)
         \o ClaimedOutEntries(Tail(listing))

\* The label of C3: the first three tokens of the name without ".out".
ClaimedLabel(name) ==
    Join(FirstThree(Split(SubSeq(name, 1, Len(name) - Len(DotOut)), "_")), "_")

\* C3 as stated: the label of every discovered file is made of the first
\* three tokens of its base name.
C3_LabelFromBaseName ==
    \A k \in 1..Len(legend_names) :
        legend_names[k] = ClaimedLabel(ClaimedOutEntries(list1)[k])

\* C10 as stated: the two lists returned have the same length and each legend
\* name is the label of the file at the same position.
C10_LabelsAligned ==
    pc = "loop" =>
        /\ Len(fns) = Len(legend_names)
        /\ \A i \in 1..Len(fns) :
              i <= Len(legend_names) /\ legend_names[i] = LegendName(fns[i].name)

====
